---- MODULE Spec2Model ----
(***************************************************************************)
(* A model of src/main.py: a FastAPI webhook endpoint that feeds Telegram  *)
(* updates to a python-telegram-bot Application whose handlers keep a      *)
(* per-user conversation history and call an OpenAI completion client.     *)
(*                                                                         *)
(* Every coroutine is cut at its awaits: one action runs a coroutine from  *)
(* one await to the next, so that other requests may run in between, as    *)
(* they do on the asyncio event loop.  The outcome of each awaited call    *)
(* (completion, reply send, webhook query, webhook registration) is an     *)
(* input of the action that resumes the coroutine.                         *)
(***************************************************************************)
EXTENDS Integers, Sequences, FiniteSets, TLC

VARIABLES
    application,         \* the global `application`: "None" or "built"
    handlers,            \* the handlers registered on the application, in order
    bot_initialized,     \* Application.initialize() done and shutdown() not yet
    phase,               \* position of the lifespan coroutine
    webhook,             \* the URL registered at the chat platform
    user_conversations,  \* user id -> history (<< >>: no entry for that id)
    tasks,               \* slot -> the webhook request running in it
    startup_log          \* per startup: what the query reported, set_webhook calls

vars == << application, handlers, bot_initialized, phase, webhook,
           user_conversations, tasks, startup_log >>

(***************************************************************************)
(* Bounds of the model.                                                    *)
(***************************************************************************)
MaxId == 3          \* turn-producing events per conversation (Spec)
MaxIdConc == 3      \* the same in the concurrent runs (SpecConc)
MaxIdLong == 7      \* the same in the long single-conversation runs (SpecLong)
MaxStartups == 2    \* process starts

Users == {1, 2}
Slots == {1, 2}

(***************************************************************************)
(* Program constants.                                                      *)
(***************************************************************************)
max_history_messages == 10

Expected == "https://host/webhook"     \* f"{WEBHOOK_URL}/webhook"
WebhookUrls == {"", "https://other/webhook", Expected}

(***************************************************************************)
(* Session data.  A turn's content is the number of the event whose text   *)
(* (user turn) or whose generated answer (assistant turn) it holds.        *)
(***************************************************************************)
SystemTurn == [role |-> "system", content |-> 0]

DefaultHistory == << SystemTurn >>

UserTurn(id) == [role |-> "user", content |-> id]

AssistantTurn(id) == [role |-> "assistant", content |-> id]

HasConversation(convs, u) == convs[u] # << >>

\* an ensure step that creates the missing history of every user
EnsureConversation_EveryUser(convs, u) ==
    [v \in Users |-> IF HasConversation(convs, v) THEN convs[v] ELSE DefaultHistory]

\* if user_id not in user_conversations: user_conversations[user_id] = [system]
EnsureConversation(convs, u) ==
    IF HasConversation(convs, u) THEN convs ELSE [convs EXCEPT ![u] = DefaultHistory]

\* a truncation that keeps the last turns without putting h[0] back in front
Truncate_WithoutSystemTurn(h) ==
    IF Len(h) > max_history_messages + 1
    THEN SubSeq(h, Len(h) - max_history_messages, Len(h))
    ELSE h

\* if len(h) > max_history_messages + 1: h = [h[0]] + h[-max_history_messages:]
Truncate(h) ==
    IF Len(h) > max_history_messages + 1
    THEN << h[1] >> \o SubSeq(h, Len(h) - max_history_messages + 1, Len(h))
    ELSE h

\* a revert that pops the last turn whatever its role
RevertLastUser_AnyRole(h) ==
    IF Len(h) > 0 THEN SubSeq(h, 1, Len(h) - 1) ELSE h

\* if h and h[-1]["role"] == "user": h.pop()
RevertLastUser(h) ==
    IF Len(h) > 0 /\ h[Len(h)].role = "user"
    THEN SubSeq(h, 1, Len(h) - 1)
    ELSE h

(***************************************************************************)
(* Inbound payloads: a message text, a message without text, or a body     *)
(* that does not parse.                                                    *)
(***************************************************************************)
NoText == "<no text>"
BadPayload == "<malformed>"

CommandTexts == {"/start", "/help", "/clear_chat", "/foo"}

KeywordTexts == {"Tell me a joke", "TELL ME A JOKE", "Tell me a story",
                 "What can you do?", "Clear chat"}

PlainTexts == {"hello", "tell me a joke please"}

Texts == CommandTexts \cup KeywordTexts \cup PlainTexts

\* str.lower() on the texts above ((?i) in the patterns)
Lower(t) ==
    CASE t = "Tell me a joke"   -> "tell me a joke"
      [] t = "TELL ME A JOKE"   -> "tell me a joke"
      [] t = "Tell me a story"  -> "tell me a story"
      [] t = "What can you do?" -> "what can you do?"
      [] t = "Clear chat"       -> "clear chat"
      [] OTHER                  -> t

\* filters.COMMAND: the text starts with a bot command
IsCommand(t) == t \in CommandTexts

\* the command token without its slash
CommandName(t) ==
    CASE t = "/start"      -> "start"
      [] t = "/help"       -> "help"
      [] t = "/clear_chat" -> "clear_chat"
      [] t = "/foo"        -> "foo"
      [] OTHER             -> ""

\* the fallback registered before the keyword handlers
Handlers_FallbackBeforeKeywords ==
    << [filter |-> "command", arg |-> "start",            callback |-> "start"],
       [filter |-> "command", arg |-> "help",             callback |-> "help_command"],
       [filter |-> "command", arg |-> "clear_chat",       callback |-> "clear_chat"],
       [filter |-> "text",    arg |-> "",                 callback |-> "handle_message"],
       [filter |-> "regex",   arg |-> "tell me a joke",   callback |-> "send_keyword_joke"],
       [filter |-> "regex",   arg |-> "tell me a story",  callback |-> "handle_message"],
       [filter |-> "regex",   arg |-> "what can you do?", callback |-> "handle_message"],
       [filter |-> "regex",   arg |-> "clear chat",       callback |-> "clear_chat"] >>

(***************************************************************************)
(* The handlers in registration order (lifespan).                          *)
(***************************************************************************)
Handlers ==
    << [filter |-> "command", arg |-> "start",            callback |-> "start"],
       [filter |-> "command", arg |-> "help",             callback |-> "help_command"],
       [filter |-> "command", arg |-> "clear_chat",       callback |-> "clear_chat"],
       [filter |-> "regex",   arg |-> "tell me a joke",   callback |-> "send_keyword_joke"],
       [filter |-> "regex",   arg |-> "tell me a story",  callback |-> "handle_message"],
       [filter |-> "regex",   arg |-> "what can you do?", callback |-> "handle_message"],
       [filter |-> "regex",   arg |-> "clear chat",       callback |-> "clear_chat"],
       [filter |-> "text",    arg |-> "",                 callback |-> "handle_message"] >>

\* a fallback filter of ~filters.COMMAND alone, which also takes updates without text
CheckUpdate_FallbackWithoutText(h, t) ==
    CASE h.filter = "command" -> t # NoText /\ IsCommand(t) /\ CommandName(t) = h.arg
      [] h.filter = "regex"   -> t # NoText /\ Lower(t) = h.arg
      [] h.filter = "text"    -> ~IsCommand(t)
      [] OTHER                -> FALSE

\* handler.check_update(update)
CheckUpdate(h, t) ==
    CASE h.filter = "command" -> t # NoText /\ IsCommand(t) /\ CommandName(t) = h.arg
      [] h.filter = "regex"   -> t # NoText /\ Lower(t) = h.arg
      [] h.filter = "text"    -> t # NoText /\ ~IsCommand(t)
      [] OTHER                -> FALSE

Matching(hs, t) == {i \in DOMAIN hs : CheckUpdate(hs[i], t)}

\* the handlers process_update invokes: the first one that matches, in order
Invoked(hs, t) ==
    IF Matching(hs, t) = {} THEN << >>
    ELSE << hs[CHOOSE i \in Matching(hs, t) : \A j \in Matching(hs, t) : i <= j].callback >>

(***************************************************************************)
(* Requests.                                                               *)
(***************************************************************************)
\* ran: the callbacks invoked for the update; id: the number of the event when it
\* produces turns; before: the user's history when the request arrived (kept in
\* the one-at-a-time runs, which compare it with the history at the end); sending:
\* the reply being awaited; raised: what raised inside the handler's try block
Idle == [pc |-> "idle", user |-> 0, text |-> NoText, ran |-> << >>, id |-> 0,
         before |-> << >>, completions |-> 0, sending |-> "", replies |-> << >>,
         raised |-> "", http |-> 0]

InFlight == {s \in Slots : tasks[s].pc # "idle"}

Running == {s \in Slots : tasks[s].pc \notin {"idle", "responded"}}

Max(S) == CHOOSE x \in S : \A y \in S : y <= x

\* the number given to the next turn-producing event of user u
NextId(u) ==
    1 + Max({0} \cup {user_conversations[u][i].content : i \in DOMAIN user_conversations[u]}
                \cup {tasks[s].id : s \in {x \in Slots : tasks[x].user = u}})

Respond(t, code) == [t EXCEPT !.pc = "responded", !.http = code]

\* await update.message.reply_text(what): the coroutine waits at pc
Await(t, pc, what) == [t EXCEPT !.pc = pc, !.sending = what]

\* the awaited reply send has returned (ok) or raised
Sent(t, ok) ==
    [t EXCEPT !.replies = Append(@, [text |-> t.sending, ok |-> ok]), !.sending = ""]

\* a handler exception that process_update lets through to the endpoint
HandlerRaised_ReachesEndpoint(t) == Respond(t, 500)

\* an exception leaves the handler: Application.process_update logs it and
\* returns, and telegram_webhook returns {"status": "ok"}
HandlerRaised(t) == Respond(t, 200)

TypeOK ==
    /\ application \in {"None", "built"}
    /\ bot_initialized \in BOOLEAN
    /\ phase \in {"not_started", "get_webhook_info", "set_webhook", "initialize",
                  "startup_failed", "running", "stopping", "shut_down"}
    /\ webhook \in WebhookUrls
    /\ \A u \in Users : \A i \in DOMAIN user_conversations[u] :
           user_conversations[u][i].role \in {"system", "user", "assistant"}
    /\ \A s \in Slots : tasks[s].http \in {0, 200, 500, 503}

Init ==
    /\ application = "None"
    /\ handlers = << >>
    /\ bot_initialized = FALSE
    /\ phase = "not_started"
    /\ webhook \in WebhookUrls
    /\ user_conversations = [u \in Users |-> << >>]
    /\ tasks = [s \in Slots |-> Idle]
    /\ startup_log = << >>

\* a first deployment: no webhook is registered at the platform yet
InitChat == Init /\ webhook = ""

\* a start that records the command as a user turn of the new history
StartBegin_RecordsCommand(t, convs) ==
    [task  |-> Await(t, "start_reply", "welcome"),
     convs |-> [convs EXCEPT ![t.user] = Append(DefaultHistory, UserTurn(0))]]

(***************************************************************************)
(* The handlers, each up to its first await.  Each yields the request's    *)
(* new state and the new session store.                                    *)
(***************************************************************************)
StartBegin(t, convs) ==
    [task  |-> Await(t, "start_reply", "welcome"),
     convs |-> [convs EXCEPT ![t.user] = DefaultHistory]]

HelpBegin(t, convs) ==
    [task |-> Await(t, "help_reply", "help"), convs |-> convs]

\* a clear_chat that stores the default history whether or not one existed
ClearChatBegin_AlwaysResets(t, convs) ==
    [task  |-> Await(t, "clear_reply", "cleared"),
     convs |-> [convs EXCEPT ![t.user] = DefaultHistory]]

ClearChatBegin(t, convs) ==
    IF HasConversation(convs, t.user)
    THEN [task  |-> Await(t, "clear_reply", "cleared"),
          convs |-> [convs EXCEPT ![t.user] = DefaultHistory]]
    ELSE [task  |-> Await(t, "clear_reply", "nothing to clear"), convs |-> convs]

HandleMessageBegin(t, convs, id) ==
    IF t.text = ""
    THEN [task |-> Respond(t, 200), convs |-> convs]
    ELSE LET c == EnsureConversation(convs, t.user)
             h == Truncate(Append(c[t.user], UserTurn(id)))
         IN  [task  |-> [t EXCEPT !.pc = "hm_completion", !.id = id,
                                  !.completions = @ + 1],
              convs |-> [c EXCEPT ![t.user] = h]]

SendKeywordJokeBegin(t, convs, id) ==
    [task  |-> [t EXCEPT !.pc = "joke_completion", !.id = id, !.completions = @ + 1],
     convs |-> EnsureConversation(convs, t.user)]

\* application.process_update(update): run the invoked callback, if any
ProcessUpdate(t, convs, id) ==
    CASE t.ran = << >>                   -> [task |-> Respond(t, 200), convs |-> convs]
      [] t.ran = << "start" >>             -> StartBegin(t, convs)
      [] t.ran = << "help_command" >>      -> HelpBegin(t, convs)
      [] t.ran = << "clear_chat" >>        -> ClearChatBegin(t, convs)
      [] t.ran = << "handle_message" >>    -> HandleMessageBegin(t, convs, id)
      [] t.ran = << "send_keyword_joke" >> -> SendKeywordJokeBegin(t, convs, id)

ProducesTurns(ran) == ran = << "handle_message" >> \/ ran = << "send_keyword_joke" >>

FreeSlot == CHOOSE s \in Slots : tasks[s].pc = "idle" /\ \A x \in Slots : tasks[x].pc = "idle" => s <= x

(***************************************************************************)
(* POST /webhook.  conc bounds the requests in progress, maxId the events  *)
(* that produce turns in one conversation.  Without an application the     *)
(* answer is 503.  A body that does not parse raises inside the try block, *)
(* and so does process_update on an application that is not initialized:   *)
(* the answer is 500.  Otherwise the update is dispatched and the request  *)
(* runs up to the handler's first await.                                   *)
(***************************************************************************)
TelegramWebhook(u, p, conc, maxId) ==
    /\ Cardinality(InFlight) < conc
    /\ LET s  == FreeSlot
           t0 == [Idle EXCEPT !.user = u, !.text = p,
                             !.before = IF conc = 1 THEN user_conversations[u] ELSE << >>]
       IN  IF application = "None"
           THEN /\ tasks' = [tasks EXCEPT ![s] = Respond(t0, 503)]
                /\ UNCHANGED user_conversations
           ELSE IF p = BadPayload \/ ~bot_initialized
           THEN /\ tasks' = [tasks EXCEPT ![s] = Respond(t0, 500)]
                /\ UNCHANGED user_conversations
           ELSE LET t1 == [t0 EXCEPT !.ran = Invoked(handlers, p)]
                    id == IF ProducesTurns(t1.ran) THEN NextId(u) ELSE 0
                    r  == ProcessUpdate(t1, user_conversations, id)
                IN  /\ id <= maxId
                    /\ tasks' = [tasks EXCEPT ![s] = r.task]
                    /\ user_conversations' = r.convs
    /\ \A x \in Slots : tasks[x].pc # "responded"
    /\ UNCHANGED << application, handlers, bot_initialized, phase, webhook, startup_log >>

\* the response has been delivered
Close(s) ==
    /\ tasks[s].pc = "responded"
    /\ tasks' = [tasks EXCEPT ![s] = Idle]
    /\ UNCHANGED << application, handlers, bot_initialized, phase, webhook,
                    user_conversations, startup_log >>

\* a resumed coroutine touches neither the lifespan's state nor the platform's;
\* a response, once returned, is delivered before anything else runs
Frame ==
    /\ \A x \in Slots : tasks[x].pc # "responded"
    /\ UNCHANGED << application, handlers, bot_initialized, phase, webhook, startup_log >>

(***************************************************************************)
(* start, help_command, clear_chat: the reply send returns or raises.      *)
(***************************************************************************)
StartReply(s, ok) ==
    /\ tasks[s].pc = "start_reply"
    /\ tasks' = [tasks EXCEPT ![s] =
                   IF ok THEN Respond(Sent(@, TRUE), 200) ELSE HandlerRaised(Sent(@, FALSE))]
    /\ UNCHANGED user_conversations
    /\ Frame

HelpReply(s, ok) ==
    /\ tasks[s].pc = "help_reply"
    /\ tasks' = [tasks EXCEPT ![s] =
                   IF ok THEN Respond(Sent(@, TRUE), 200) ELSE HandlerRaised(Sent(@, FALSE))]
    /\ UNCHANGED user_conversations
    /\ Frame

ClearChatReply(s, ok) ==
    /\ tasks[s].pc = "clear_reply"
    /\ tasks' = [tasks EXCEPT ![s] =
                   IF ok THEN Respond(Sent(@, TRUE), 200) ELSE HandlerRaised(Sent(@, FALSE))]
    /\ UNCHANGED user_conversations
    /\ Frame

(***************************************************************************)
(* handle_message after its awaits.                                        *)
(***************************************************************************)
\* a handle_message whose except block replies with the text of the error
HandleMessageCompletion_RepliesTheError(s, ok) ==
    LET t == tasks[s] IN
    /\ t.pc = "hm_completion"
    /\ IF ok
       THEN /\ user_conversations' =
                   [user_conversations EXCEPT ![t.user] = Append(@, AssistantTurn(t.id))]
            /\ tasks' = [tasks EXCEPT ![s] = Await(t, "hm_reply", "answer")]
       ELSE /\ UNCHANGED user_conversations
            /\ tasks' = [tasks EXCEPT ![s] =
                           Await([t EXCEPT !.raised = "completion"], "hm_apology", "error text")]
    /\ Frame

\* the completion call returns (the assistant turn is appended, the reply is
\* sent) or raises (the apology is sent)
HandleMessageCompletion(s, ok) ==
    LET t == tasks[s] IN
    /\ t.pc = "hm_completion"
    /\ IF ok
       THEN /\ user_conversations' =
                   [user_conversations EXCEPT ![t.user] = Append(@, AssistantTurn(t.id))]
            /\ tasks' = [tasks EXCEPT ![s] = Await(t, "hm_reply", "answer")]
       ELSE /\ UNCHANGED user_conversations
            /\ tasks' = [tasks EXCEPT ![s] =
                           Await([t EXCEPT !.raised = "completion"], "hm_apology", "apology")]
    /\ Frame

\* reply_text(ai_response) returns, or raises inside the try block
HandleMessageReply(s, ok) ==
    LET t == tasks[s] IN
    /\ t.pc = "hm_reply"
    /\ tasks' = [tasks EXCEPT ![s] =
                   IF ok THEN Respond(Sent(t, TRUE), 200)
                   ELSE Await([Sent(t, FALSE) EXCEPT !.raised = "reply"],
                              "hm_apology", "apology")]
    /\ UNCHANGED user_conversations
    /\ Frame

\* the apology send of the except block returns (then the revert runs) or
\* raises (the exception leaves the handler before the revert)
HandleMessageApology(s, ok) ==
    LET t == tasks[s] IN
    /\ t.pc = "hm_apology"
    /\ IF ok
       THEN /\ user_conversations' =
                   [user_conversations EXCEPT ![t.user] = RevertLastUser(@)]
            /\ tasks' = [tasks EXCEPT ![s] = Respond(Sent(t, TRUE), 200)]
       ELSE /\ UNCHANGED user_conversations
            /\ tasks' = [tasks EXCEPT ![s] = HandlerRaised(Sent(t, FALSE))]
    /\ Frame

(***************************************************************************)
(* send_keyword_joke after its awaits.                                     *)
(***************************************************************************)
SendKeywordJokeCompletion(s, ok) ==
    LET t == tasks[s] IN
    /\ t.pc = "joke_completion"
    /\ tasks' = [tasks EXCEPT ![s] =
                   IF ok THEN Await(t, "joke_reply", "joke")
                   ELSE Await([t EXCEPT !.raised = "completion"],
                              "joke_apology", "joke apology")]
    /\ UNCHANGED user_conversations
    /\ Frame

\* reply_text(joke) returns (the joke is appended to the history) or raises
SendKeywordJokeReply(s, ok) ==
    LET t == tasks[s] IN
    /\ t.pc = "joke_reply"
    /\ IF ok
       THEN /\ user_conversations' =
                   [user_conversations EXCEPT ![t.user] = Append(@, AssistantTurn(t.id))]
            /\ tasks' = [tasks EXCEPT ![s] = Respond(Sent(t, TRUE), 200)]
       ELSE /\ UNCHANGED user_conversations
            /\ tasks' = [tasks EXCEPT ![s] =
                           Await([Sent(t, FALSE) EXCEPT !.raised = "reply"],
                                 "joke_apology", "joke apology")]
    /\ Frame

SendKeywordJokeApology(s, ok) ==
    LET t == tasks[s] IN
    /\ t.pc = "joke_apology"
    /\ tasks' = [tasks EXCEPT ![s] =
                   IF ok THEN Respond(Sent(t, TRUE), 200) ELSE HandlerRaised(Sent(t, FALSE))]
    /\ UNCHANGED user_conversations
    /\ Frame

(***************************************************************************)
(* lifespan: startup up to the yield, shutdown after it.                   *)
(***************************************************************************)
Handling ==
    /\ \A x \in Slots : tasks[x].pc # "responded"
    /\ UNCHANGED << user_conversations, tasks >>

\* build the application, register the handlers, query the webhook
LifespanStartup ==
    /\ phase = "not_started"
    /\ application' = "built"
    /\ handlers' = Handlers
    /\ phase' = "get_webhook_info"
    /\ startup_log' = Append(startup_log,
                             [reported |-> "pending", set_calls |-> 0, set_ok |-> FALSE])
    /\ UNCHANGED << bot_initialized, webhook >>
    /\ Handling

LogLast(field, v) == [startup_log EXCEPT ![Len(startup_log)][field] = v]

\* a startup that registers the webhook without comparing the reported URL
GetWebhookInfoReturns_AlwaysSets(ok) ==
    /\ phase = "get_webhook_info"
    /\ IF ok
       THEN /\ phase' = "set_webhook"
            /\ startup_log' = [startup_log EXCEPT ![Len(startup_log)] =
                   [@ EXCEPT !.reported = webhook, !.set_calls = @ + 1]]
       ELSE /\ phase' = "initialize"
            /\ startup_log' = LogLast("reported", "raised")
    /\ UNCHANGED << application, handlers, bot_initialized, webhook >>
    /\ Handling

\* get_webhook_info() returns the registered URL, or raises
GetWebhookInfoReturns(ok) ==
    /\ phase = "get_webhook_info"
    /\ IF ok
       THEN IF webhook # Expected
            THEN /\ phase' = "set_webhook"
                 /\ startup_log' = [startup_log EXCEPT ![Len(startup_log)] =
                        [@ EXCEPT !.reported = webhook, !.set_calls = @ + 1]]
            ELSE /\ phase' = "initialize"
                 /\ startup_log' = LogLast("reported", webhook)
       ELSE /\ phase' = "initialize"
            /\ startup_log' = LogLast("reported", "raised")
    /\ UNCHANGED << application, handlers, bot_initialized, webhook >>
    /\ Handling

\* a set_webhook whose exception is not caught: it leaves the lifespan
SetWebhookReturns_Uncaught(ok) ==
    /\ phase = "set_webhook"
    /\ phase' = IF ok THEN "initialize" ELSE "startup_failed"
    /\ webhook' = IF ok THEN Expected ELSE webhook
    /\ startup_log' = LogLast("set_ok", ok)
    /\ UNCHANGED << application, handlers, bot_initialized >>
    /\ Handling

\* set_webhook(url=expected_webhook_url) returns, or raises
SetWebhookReturns(ok) ==
    /\ phase = "set_webhook"
    /\ phase' = "initialize"
    /\ webhook' = IF ok THEN Expected ELSE webhook
    /\ startup_log' = LogLast("set_ok", ok)
    /\ UNCHANGED << application, handlers, bot_initialized >>
    /\ Handling

\* application.initialize(); application.start(); yield
InitializeAndStart ==
    /\ phase = "initialize"
    /\ bot_initialized' = TRUE
    /\ phase' = "running"
    /\ UNCHANGED << application, handlers, webhook, startup_log >>
    /\ Handling

\* application.initialize() raises: nothing catches it, the exception leaves
\* the lifespan before the yield and the startup of the service has failed
InitializeRaises ==
    /\ phase = "initialize"
    /\ phase' = "startup_failed"
    /\ UNCHANGED << application, handlers, bot_initialized, webhook, startup_log >>
    /\ Handling

\* after the yield: application.stop()
LifespanShutdown ==
    /\ phase = "running"
    /\ phase' = "stopping"
    /\ UNCHANGED << application, handlers, bot_initialized, webhook, startup_log >>
    /\ Handling

\* application.shutdown()
ShutdownCompletes ==
    /\ phase = "stopping"
    /\ bot_initialized' = FALSE
    /\ phase' = "shut_down"
    /\ UNCHANGED << application, handlers, webhook, startup_log >>
    /\ Handling

\* the process ends and a new one is started: module level state is fresh
ProcessRestart ==
    /\ phase \in {"shut_down", "startup_failed"}
    /\ Len(startup_log) < MaxStartups
    /\ \A x \in Slots : tasks[x].pc # "responded"
    /\ application' = "None"
    /\ handlers' = << >>
    /\ phase' = "not_started"
    /\ user_conversations' = [u \in Users |-> << >>]
    /\ tasks' = [s \in Slots |-> Idle]
    /\ UNCHANGED << bot_initialized, webhook, startup_log >>

\* the startup sequence; oks: the outcomes the platform calls may have
Startup(oks) ==
    \/ LifespanStartup
    \/ \E ok \in oks : GetWebhookInfoReturns(ok)
    \/ \E ok \in oks : SetWebhookReturns(ok)
    \/ InitializeAndStart

Shutdown ==
    \/ LifespanShutdown
    \/ ShutdownCompletes
    \/ ProcessRestart

ResumeCommands ==
    \/ \E s \in Slots, ok \in BOOLEAN : StartReply(s, ok)
    \/ \E s \in Slots, ok \in BOOLEAN : HelpReply(s, ok)
    \/ \E s \in Slots, ok \in BOOLEAN : ClearChatReply(s, ok)

ResumeMessage ==
    \/ \E s \in Slots, ok \in BOOLEAN : HandleMessageCompletion(s, ok)
    \/ \E s \in Slots, ok \in BOOLEAN : HandleMessageReply(s, ok)
    \/ \E s \in Slots, ok \in BOOLEAN : HandleMessageApology(s, ok)

ResumeJoke ==
    \/ \E s \in Slots, ok \in BOOLEAN : SendKeywordJokeCompletion(s, ok)
    \/ \E s \in Slots, ok \in BOOLEAN : SendKeywordJokeReply(s, ok)
    \/ \E s \in Slots, ok \in BOOLEAN : SendKeywordJokeApology(s, ok)

Resume ==
    \/ ResumeCommands
    \/ ResumeMessage
    \/ ResumeJoke
    \/ \E s \in Slots : Close(s)

Payloads == Texts \cup {NoText, BadPayload}

LongPayloads == {"hello", "Tell me a joke", "/start", "/help", "Clear chat"}

\* user 1 reaches every handler; user 2 only chats
ConcPayloads(u) ==
    IF u = 1 THEN {"hello", "Tell me a joke", "/start", "/help", "Clear chat"}
    ELSE {"hello"}

LifePayloads == {"hello", NoText, BadPayload}

\* user 2 sends one message that produces turns
ConcMaxId(u) == IF u = 1 THEN MaxIdConc ELSE 1

(***************************************************************************)
(* Spec: the service is started and serves every payload for two users,    *)
(* one request at a time.                                                  *)
(***************************************************************************)
Next ==
    \/ Startup({TRUE})
    \/ \E u \in Users, p \in Payloads : TelegramWebhook(u, p, 1, MaxId)
    \/ Resume

Spec == InitChat /\ [][Next]_vars

(***************************************************************************)
(* SpecConc: two users, up to two requests in progress at once.            *)
(***************************************************************************)
NextConc ==
    \/ Startup({TRUE})
    \/ \E u \in Users : \E p \in ConcPayloads(u) : TelegramWebhook(u, p, 2, ConcMaxId(u))
    \/ Resume

SpecConc == InitChat /\ [][NextConc]_vars

(***************************************************************************)
(* SpecLong: one conversation, requests one at a time, long enough for     *)
(* the history to be truncated.                                            *)
(***************************************************************************)
NextLong ==
    \/ Startup({TRUE})
    \/ \E p \in LongPayloads : TelegramWebhook(1, p, 1, MaxIdLong)
    \/ Resume

SpecLong == InitChat /\ [][NextLong]_vars

(***************************************************************************)
(* SpecLife: startups with every outcome of the platform calls, shutdown   *)
(* and restart of the process, requests arriving in every phase.           *)
(***************************************************************************)
NextLife ==
    \/ Startup(BOOLEAN)
    \/ InitializeRaises
    \/ Shutdown
    \/ \E p \in LifePayloads : TelegramWebhook(1, p, 1, 1)
    \/ ResumeMessage
    \/ \E s \in Slots : Close(s)

SpecLife == Init /\ [][NextLife]_vars

(***************************************************************************)
(* SpecLifeFair: SpecLife with the lifespan coroutine making progress:     *)
(* each call it awaits during startup returns or raises, and a response    *)
(* that has been returned is delivered.  The fairness of the startup is    *)
(* strong because a step of the lifespan waits here for a returned         *)
(* response to be delivered, which requests may bring about again and      *)
(* again.                                                                  *)
(***************************************************************************)
StartupStep == Startup(BOOLEAN) \/ InitializeRaises

Delivery == \E s \in Slots : Close(s)

SpecLifeFair == SpecLife /\ SF_vars(StartupStep) /\ WF_vars(Delivery)

(***************************************************************************)
(* Helpers of the properties.                                              *)
(***************************************************************************)
LastN(h, n) == IF Len(h) <= n THEN h ELSE SubSeq(h, Len(h) - n + 1, Len(h))

NonSystem(h) == IF Len(h) = 0 THEN h ELSE SubSeq(h, 2, Len(h))

\* the turns of n answered messages: u1, a1, ..., un, an
RECURSIVE Pairs(_)
Pairs(n) == IF n = 0 THEN << >> ELSE Pairs(n - 1) \o << UserTurn(n), AssistantTurn(n) >>

\* the history handle_message leaves after n answered messages on a fresh
\* conversation
RECURSIVE AfterMessages(_)
AfterMessages(n) ==
    IF n = 0 THEN DefaultHistory
    ELSE Append(Truncate(Append(AfterMessages(n - 1), UserTurn(n))), AssistantTurn(n))

Responded(s) == tasks[s].pc = "responded"

\* request s is a free-text dispatch that has ended with completion and reply sent
AnsweredMessage(s) ==
    /\ Responded(s)
    /\ tasks[s].ran = << "handle_message" >>
    /\ tasks[s].raised = ""

(***************************************************************************)
(* C1.  History bound (contents): on a conversation holding only the       *)
(* system turn, after N >= 5 free-text messages answered one after         *)
(* another, the history is the system turn followed by the 10 most recent  *)
(* non-system turns in their order.  Stated as the claim states it; the    *)
(* code leaves 11 non-system turns from the sixth message on.              *)
(***************************************************************************)
C1_HistoryIsLastTen ==
    \A s \in Slots :
        ( /\ AnsweredMessage(s)
          /\ tasks[s].id >= 5
          /\ tasks[s].before = AfterMessages(tasks[s].id - 1) )
        => user_conversations[tasks[s].user] =
               << SystemTurn >> \o LastN(Pairs(tasks[s].id), max_history_messages)

(***************************************************************************)
(* C2.  History bound (invariant): no conversation ever holds more than    *)
(* 10 non-system turns (history length at most 11).  Stated as the claim   *)
(* states it; the assistant turns are appended without truncation.         *)
(***************************************************************************)
C2_AtMostTenNonSystemTurns ==
    \A u \in Users : Len(user_conversations[u]) <= max_history_messages + 1

(***************************************************************************)
(* C3.  Every conversation in the store has exactly one system turn, and   *)
(* it is the first turn: no handler removes it, moves it or adds another.  *)
(***************************************************************************)
C3_OneSystemTurnFirst ==
    \A u \in Users :
        HasConversation(user_conversations, u) =>
            /\ user_conversations[u][1] = SystemTurn
            /\ \A i \in 2..Len(user_conversations[u]) :
                   user_conversations[u][i].role # "system"

\* a free-text request has just truncated a history of 11 or more turns
C3_Witness ==
    \E s \in Slots :
        /\ tasks[s].pc = "hm_completion"
        /\ Len(tasks[s].before) > max_history_messages
        /\ Len(user_conversations[tasks[s].user]) = max_history_messages + 1
        /\ user_conversations[tasks[s].user][1] = SystemTurn

\* request s is a free-text dispatch that has ended after its completion call failed
FailedMessage(s) ==
    /\ Responded(s)
    /\ tasks[s].ran = << "handle_message" >>
    /\ tasks[s].raised = "completion"

Turns(h) == {h[i] : i \in DOMAIN h}

LastReplyOk(s) ==
    /\ tasks[s].replies # << >>
    /\ tasks[s].replies[Len(tasks[s].replies)].ok

(***************************************************************************)
(* C4.  Revert on failure: when the completion call of handle_message      *)
(* fails, the user turn that dispatch appended is not in the history when  *)
(* the dispatch ends, whether the apology send succeeds or fails.  Stated  *)
(* as the claim states it; when the apology send raises, the revert that   *)
(* follows it never runs.                                                  *)
(***************************************************************************)
C4_UserTurnRevertedOnFailure ==
    \A s \in Slots :
        FailedMessage(s) =>
            UserTurn(tasks[s].id) \notin Turns(user_conversations[tasks[s].user])

(***************************************************************************)
(* C5.  State unchanged on completion failure: for an existing             *)
(* conversation, when the completion call fails and the apology is sent,   *)
(* the history after the dispatch equals the history before it.  Stated as *)
(* the claim states it; on a history of 11 or more turns the truncation    *)
(* has already evicted old turns that the revert does not restore.         *)
(***************************************************************************)
C5_HistoryUnchangedOnFailure ==
    \A s \in Slots :
        ( /\ FailedMessage(s)
          /\ LastReplyOk(s)
          /\ tasks[s].before # << >> )
        => user_conversations[tasks[s].user] = tasks[s].before

\* request s was handed to application.process_update
Dispatched(s) == tasks[s].pc # "idle" /\ tasks[s].http \notin {500, 503}

\* the callback whose coroutine request s is suspended in
Suspended(s) ==
    CASE tasks[s].pc = "start_reply"                                      -> "start"
      [] tasks[s].pc = "help_reply"                                       -> "help_command"
      [] tasks[s].pc = "clear_reply"                                      -> "clear_chat"
      [] tasks[s].pc \in {"hm_completion", "hm_reply", "hm_apology"}      -> "handle_message"
      [] tasks[s].pc \in {"joke_completion", "joke_reply", "joke_apology"} -> "send_keyword_joke"
      [] OTHER                                                            -> "none"

\* the routing the claim describes: commands, then the keywords whatever the
\* letter case, then the fallback for every other text
ClaimedHandler(t) ==
    CASE t = "/start"                      -> "start"
      [] t = "/help"                       -> "help_command"
      [] t = "/clear_chat"                 -> "clear_chat"
      [] Lower(t) = "tell me a joke"       -> "send_keyword_joke"
      [] Lower(t) = "tell me a story"      -> "handle_message"
      [] Lower(t) = "what can you do?"     -> "handle_message"
      [] Lower(t) = "clear chat"           -> "clear_chat"
      [] OTHER                             -> "handle_message"

RoutedAsClaimed(s) ==
    /\ tasks[s].ran = << ClaimedHandler(tasks[s].text) >>
    /\ ~Responded(s) => Suspended(s) = ClaimedHandler(tasks[s].text)

\* a text that starts with a command no handler is registered for
UnknownCommand(t) == IsCommand(t) /\ t \notin {"/start", "/help", "/clear_chat"}

C7_NoTextSuppressed ==
    [][ \A s \in Slots :
          ( /\ bot_initialized
            /\ tasks[s].pc = "idle"
            /\ tasks'[s].pc # "idle"
            /\ tasks'[s].text = NoText )
          => /\ tasks'[s].pc = "responded"
             /\ tasks'[s].http = 200
             /\ tasks'[s].ran = << >>
             /\ tasks'[s].replies = << >>
             /\ tasks'[s].sending = ""
             /\ tasks'[s].completions = 0
             /\ user_conversations' = user_conversations ]_vars

\* an update without text was answered 200 while a conversation exists
C7_Witness ==
    \E s \in Slots :
        /\ Responded(s)
        /\ tasks[s].text = NoText
        /\ tasks[s].http = 200
        /\ \E u \in Users : Len(user_conversations[u]) > 1

CommandCallbacks == {<< "start" >>, << "help_command" >>, << "clear_chat" >>}

(***************************************************************************)
(* C8.  Command handling does not append to history: /start on a fresh     *)
(* conversation id leaves a history of exactly the default system turn     *)
(* and sends the welcome reply; no step of a command dispatch (/start,     *)
(* /help, /clear_chat) appends a turn to any conversation or calls the     *)
(* completion client.                                                      *)
(***************************************************************************)
C8_CommandsDoNotAppend ==
    [][ \A s \in Slots :
          ( /\ tasks'[s] # tasks[s]
            /\ tasks'[s].ran \in CommandCallbacks )
          => /\ tasks'[s].completions = 0
             /\ \A u \in Users :
                    \/ user_conversations'[u] = user_conversations[u]
                    \/ user_conversations'[u] = DefaultHistory
             /\ ( /\ tasks'[s].ran = << "start" >>
                  /\ tasks[s].pc = "idle"
                  /\ user_conversations[tasks'[s].user] = << >> )
                => /\ user_conversations'[tasks'[s].user] = DefaultHistory
                   /\ tasks'[s].sending = "welcome"
             /\ ( /\ tasks'[s].ran = << "start" >>
                  /\ Responded(s)'
                  /\ tasks'[s].before = << >> )
                => /\ user_conversations'[tasks'[s].user] = DefaultHistory
                   /\ Len(tasks'[s].replies) = 1
                   /\ tasks'[s].replies[1].text = "welcome" ]_vars

\* /start on a fresh id has ended: the welcome is sent, the history is the system turn
C8_Witness ==
    \E s \in Slots :
        /\ Responded(s)
        /\ tasks[s].text = "/start"
        /\ tasks[s].before = << >>
        /\ tasks[s].replies = << [text |-> "welcome", ok |-> TRUE] >>
        /\ user_conversations[tasks[s].user] = DefaultHistory

\* h2 is h1 with its k oldest non-system turns evicted (some are left) and
\* at most one turn appended at the end
Grown(h1, h2) ==
    \E k \in 0..(Len(h1) - 1) :
        /\ k = 0 \/ k < Len(h1) - 1
        /\ LET kept == << h1[1] >> \o SubSeq(h1, k + 2, Len(h1))
           IN  \/ h2 = kept
               \/ Len(h2) = Len(kept) + 1 /\ SubSeq(h2, 1, Len(kept)) = kept

\* this step is the start of a clear_chat dispatch for u
ClearStep(u) ==
    \E s \in Slots :
        /\ tasks[s].pc = "idle"
        /\ tasks'[s].user = u
        /\ tasks'[s].ran = << "clear_chat" >>

\* this step is the start of a start dispatch for u
StartStep(u) ==
    \E s \in Slots :
        /\ tasks[s].pc = "idle"
        /\ tasks'[s].user = u
        /\ tasks'[s].ran = << "start" >>

\* this step is the end of handle_message's except block for u
RevertStep(u) ==
    \E s \in Slots :
        /\ tasks[s].pc = "hm_apology"
        /\ tasks[s].user = u
        /\ Responded(s)'

(***************************************************************************)
(* C9 as stated.  Session mutation discipline: a step changes an existing  *)
(* conversation only by appending a turn, by evicting old turns after the  *)
(* system turn, or by the clear operation resetting it to the default      *)
(* system turn; nothing but the clear operation discards all its turns.    *)
(* Fails: /start resets an existing conversation, and the revert removes   *)
(* the last turn.                                                          *)
(***************************************************************************)
C9_AppendEvictOrClearOnly ==
    [][ \A u \in Users :
          ( /\ HasConversation(user_conversations, u)
            /\ user_conversations'[u] # user_conversations[u] )
          => \/ Grown(user_conversations[u], user_conversations'[u])
             \/ user_conversations'[u] = DefaultHistory /\ ClearStep(u) ]_vars

(***************************************************************************)
(* C9 amended.  A step changes an existing conversation only by appending  *)
(* a turn, by evicting old turns after the system turn, by a reset to the  *)
(* default system turn at the start of a clear operation or of /start, or  *)
(* by handle_message's revert removing the last turn, which is then a      *)
(* user turn.                                                              *)
(***************************************************************************)
C9_MutationDiscipline ==
    [][ \A u \in Users :
          ( /\ HasConversation(user_conversations, u)
            /\ user_conversations'[u] # user_conversations[u] )
          => LET h1 == user_conversations[u]
                 h2 == user_conversations'[u]
             IN  \/ Grown(h1, h2)
                 \/ h2 = DefaultHistory /\ (ClearStep(u) \/ StartStep(u))
                 \/ /\ RevertStep(u)
                    /\ h1[Len(h1)].role = "user"
                    /\ h2 = SubSeq(h1, 1, Len(h1) - 1) ]_vars

\* a failed free-text dispatch on a full history has ended: the truncation
\* evicted the oldest turn and the revert removed the user turn
C9_Witness ==
    \E s \in Slots :
        /\ FailedMessage(s)
        /\ LastReplyOk(s)
        /\ Len(tasks[s].before) = max_history_messages + 1
        /\ user_conversations[tasks[s].user] =
               << SystemTurn >> \o SubSeq(tasks[s].before, 3, Len(tasks[s].before))

\* the startup found or made the registration correct
Registered(r) == r.reported = Expected \/ r.set_ok

(***************************************************************************)
(* C10.  Idempotent webhook registration: a startup whose query reports    *)
(* the desired URL makes no set_webhook call; and a startup that follows   *)
(* one whose registration held or succeeded makes none either, so that     *)
(* the two together make at most one.                                      *)
(***************************************************************************)
C10_IdempotentRegistration ==
    \A i \in DOMAIN startup_log :
        /\ startup_log[i].reported = Expected => startup_log[i].set_calls = 0
        /\ (i > 1 /\ Registered(startup_log[i - 1])) =>
               /\ startup_log[i].set_calls = 0
               /\ startup_log[i - 1].set_calls + startup_log[i].set_calls <= 1

\* the second startup runs after a first one that called set_webhook with
\* success; its query reported the desired URL
C10_Witness ==
    /\ Len(startup_log) = 2
    /\ startup_log[1].set_calls = 1
    /\ startup_log[1].set_ok
    /\ startup_log[2].reported = Expected
    /\ phase = "running"

\* a reply send of request s raised
ReplyFailed(s) == \E i \in DOMAIN tasks[s].replies : ~tasks[s].replies[i].ok

(***************************************************************************)
(* C11.  Acknowledge on delivery failure: when a reply send of a handler   *)
(* raises (start, help_command, clear_chat, handle_message and its apology *)
(* send, send_keyword_joke and its apology send), the request is not       *)
(* answered with an error: POST /webhook answers 200.                      *)
(***************************************************************************)
C11_AcknowledgedOnDeliveryFailure ==
    \A s \in Slots :
        (tasks[s].pc # "idle" /\ ReplyFailed(s)) =>
            /\ tasks[s].http \in {0, 200}
            /\ Responded(s) => tasks[s].http = 200

\* a free-text dispatch has ended with 200 after both its answer send and its
\* apology send raised
C11_Witness ==
    \E s \in Slots :
        /\ Responded(s)
        /\ tasks[s].ran = << "handle_message" >>
        /\ tasks[s].replies = << [text |-> "answer", ok |-> FALSE],
                                 [text |-> "apology", ok |-> FALSE] >>
        /\ tasks[s].http = 200

\* request s arrives in this step
Arrives(s) == tasks[s].pc = "idle" /\ tasks'[s].pc # "idle"

RegistrationPhases == {"get_webhook_info", "set_webhook"}

\* the startup in progress has made its webhook query
StartupBegun == phase \in RegistrationPhases

CompletionFailed(s) == tasks[s].pc # "idle" /\ tasks[s].raised = "completion"

\* the fixed apology text of the handler that request s runs
ApologyOf(s) ==
    IF tasks[s].ran = << "send_keyword_joke" >> THEN "joke apology" ELSE "apology"

(***************************************************************************)
(* C14.  Completion failure is contained: when the completion call of      *)
(* handle_message or of send_keyword_joke raises, the dispatch makes       *)
(* exactly one reply send, that of the handler's fixed apology text, no    *)
(* second completion call, appends no assistant turn, and the webhook      *)
(* answers 200.                                                            *)
(***************************************************************************)
C14_CompletionFailureContained ==
    \A s \in Slots :
        CompletionFailed(s) =>
            /\ tasks[s].completions = 1
            /\ Len(tasks[s].replies) <= 1
            /\ \A i \in DOMAIN tasks[s].replies : tasks[s].replies[i].text = ApologyOf(s)
            /\ tasks[s].sending \in {"", ApologyOf(s)}
            /\ AssistantTurn(tasks[s].id) \notin Turns(user_conversations[tasks[s].user])
            /\ Responded(s) => /\ Len(tasks[s].replies) = 1
                               /\ tasks[s].http = 200

\* a free-text dispatch whose completion call raised has ended: the apology
\* was sent, nothing of the dispatch is in the history
C14_Witness ==
    \E s \in Slots :
        /\ FailedMessage(s)
        /\ tasks[s].completions = 1
        /\ tasks[s].replies = << [text |-> "apology", ok |-> TRUE] >>
        /\ tasks[s].http = 200
        /\ Len(tasks[s].before) >= 3
        /\ user_conversations[tasks[s].user] = tasks[s].before

\* this step is a step of a request of user u
StepOf(u) ==
    \E s \in Slots :
        /\ tasks'[s] # tasks[s]
        /\ tasks[s].user = u \/ tasks'[s].user = u

(***************************************************************************)
(* C15.  Failure isolation between conversations: a step of the dispatch   *)
(* of an event for one conversation, whichever handler runs, whatever the  *)
(* outcome of its completion call and of its reply sends, and however it   *)
(* interleaves with the dispatches for other conversations, changes the    *)
(* history of no other conversation.                                       *)
(***************************************************************************)
C15_OtherConversationsUntouched ==
    [][ \A u \in Users :
          user_conversations'[u] # user_conversations[u] =>
              /\ StepOf(u)
              /\ \A v \in Users \ {u} : ~StepOf(v) ]_vars

\* the completion call of one user's message has raised while a message of
\* the other user, who has a history, is in progress
C15_Witness ==
    \E s, x \in Slots :
        /\ tasks[s].user = 1
        /\ tasks[s].pc = "hm_apology"
        /\ tasks[s].raised = "completion"
        /\ tasks[x].user = 2
        /\ tasks[x].pc = "hm_reply"
        /\ Len(user_conversations[2]) = 3
        /\ Len(user_conversations[1]) >= 2

ClearEnded(s) == Responded(s) /\ tasks[s].ran = << "clear_chat" >>

(***************************************************************************)
(* C17 as stated.  Clear: after the clear operation has been dispatched    *)
(* for a conversation id, by the /clear_chat command or by the Clear chat  *)
(* keyword, the history of that id is exactly the default system turn, one *)
(* reply send was made and the completion client was not called, whether   *)
(* or not the id had a history before.  Fails for an id without history:   *)
(* clear_chat stores nothing for it.                                       *)
(***************************************************************************)
C17_ClearLeavesDefaultHistory ==
    \A s \in Slots :
        ClearEnded(s) =>
            /\ tasks[s].text \in {"/clear_chat", "Clear chat"}
            /\ user_conversations[tasks[s].user] = DefaultHistory
            /\ Len(tasks[s].replies) = 1
            /\ tasks[s].completions = 0

(***************************************************************************)
(* C17 amended.  After the clear operation has been dispatched, by either  *)
(* route: when the id had a history, the history is exactly the default    *)
(* system turn and the reply says that the history was cleared; when it    *)
(* had none, the store still has no history for the id and the reply says  *)
(* that there was nothing to clear; in both cases one reply send was made  *)
(* and the completion client was not called.                               *)
(***************************************************************************)
C17_ClearResetsExistingHistory ==
    \A s \in Slots :
        ClearEnded(s) =>
            /\ tasks[s].text \in {"/clear_chat", "Clear chat"}
            /\ Len(tasks[s].replies) = 1
            /\ tasks[s].completions = 0
            /\ IF tasks[s].before # << >>
               THEN /\ user_conversations[tasks[s].user] = DefaultHistory
                    /\ tasks[s].replies[1].text = "cleared"
               ELSE /\ user_conversations[tasks[s].user] = << >>
                    /\ tasks[s].replies[1].text = "nothing to clear"

\* the Clear chat keyword has cleared a history that held an answered message
C17_Witness ==
    \E s \in Slots :
        /\ ClearEnded(s)
        /\ tasks[s].text = "Clear chat"
        /\ Len(tasks[s].before) >= 3
        /\ user_conversations[tasks[s].user] = DefaultHistory
        /\ tasks[s].replies = << [text |-> "cleared", ok |-> TRUE] >>

\* request s is a free-text dispatch in which nothing but the completion call raised
RevertedMessage(s) == FailedMessage(s) /\ LastReplyOk(s)

\* no other request of the user of request s is in progress
AloneInConversation(s) ==
    \A x \in Slots \ {s} : tasks[x].pc = "idle" \/ tasks[x].user # tasks[s].user

(***************************************************************************)
(* C18.  Revert under concurrency: when two free-text events of one        *)
(* conversation are dispatched concurrently, the revert of a dispatch      *)
(* whose completion call raised removes nothing but the user turn which    *)
(* that dispatch appended, and once the dispatches have ended no user turn *)
(* of a failed one is in the history.  Stated as the claim states it (with *)
(* the apology delivered, so that the revert runs); the revert pops        *)
(* whatever user turn is last, which may be the other dispatch's.          *)
(***************************************************************************)
C18_RevertRemovesOwnTurnOnly ==
    /\ [][ \A s \in Slots :
             ( /\ tasks[s].pc = "hm_apology"
               /\ tasks[s].raised = "completion"
               /\ Responded(s)' )
             => \A x \in Turns(user_conversations[tasks[s].user]) :
                    x \notin Turns(user_conversations'[tasks[s].user])
                        => x = UserTurn(tasks[s].id) ]_vars
    /\ [](\A s \in Slots :
             (RevertedMessage(s) /\ AloneInConversation(s)) =>
                 UserTurn(tasks[s].id) \notin Turns(user_conversations[tasks[s].user]))

\* request s has ended; its answer (or joke) was generated and the send of it raised
AnswerNotDelivered(s) ==
    /\ Responded(s)
    /\ ProducesTurns(tasks[s].ran)
    /\ tasks[s].raised = "reply"

(***************************************************************************)
(* C19.  History reflects what the user saw: a dispatch whose reply send   *)
(* raised leaves no assistant turn of that dispatch in the history, in     *)
(* handle_message and in send_keyword_joke, so that every assistant turn   *)
(* of a conversation at rest is a reply that was delivered.  Stated as the *)
(* claim states it; handle_message appends the assistant turn before it    *)
(* sends the reply, and nothing removes it when the send raises.           *)
(***************************************************************************)
C19_AssistantTurnsWereDelivered ==
    \A s \in Slots :
        AnswerNotDelivered(s) =>
            AssistantTurn(tasks[s].id) \notin Turns(user_conversations[tasks[s].user])

\* after the system turn the turns are user, assistant, user, assistant, ...
Alternates(h) ==
    \A i \in 2..Len(h) : h[i].role = IF i % 2 = 0 THEN "user" ELSE "assistant"

\* request s is a free-text dispatch on a history made by answered free-text
\* messages only; its history is with the completion client, or it has ended
\* with its answer sent
AtCompletionOrAnswered(s) ==
    /\ tasks[s].ran = << "handle_message" >>
    /\ tasks[s].before = AfterMessages(tasks[s].id - 1)
    /\ tasks[s].pc = "hm_completion" \/ AnsweredMessage(s)

(***************************************************************************)
(* C20.  Eviction keeps question and answer together: with free-text       *)
(* messages answered one after another, whenever the history is passed to  *)
(* the completion client and after every dispatch, its first non-system    *)
(* turn is a user turn and the non-system turns alternate user, assistant. *)
(* Stated as the claim states it; the truncation keeps the last 10 turns   *)
(* of 11, so that from the sixth message on the history starts with the    *)
(* assistant turn of an evicted user turn.                                 *)
(***************************************************************************)
C20_PairsStayTogether ==
    \A s \in Slots :
        AtCompletionOrAnswered(s) => Alternates(user_conversations[tasks[s].user])

====
